---- MODULE Spec2Model ----
(***************************************************************************)
(* cert-manager DNS-01 webhook solver for bunny.net.                       *)
(*                                                                         *)
(* The repository holds two builds of the solver: src/main.go and          *)
(* src/unnamed/part_000.  Both declare package main with the same          *)
(* functions, so a running process is exactly one of them; the variable    *)
(* build says which.  Strings the code slices (FQDN, zone, record name)    *)
(* are sequences of one-character strings; keys and messages are opaque.   *)
(*                                                                         *)
(* An invocation of Present or CleanUp is a process that moves between     *)
(* its network calls; each network call (request, provider effect,         *)
(* response, and the code up to the next call) is one atomic step.         *)
(***************************************************************************)
EXTENDS Integers, Sequences, FiniteSets, TLC

VARIABLES
    build,        \* which source file was compiled
    GroupName,    \* os.Getenv("GROUP_NAME")
    ApiKey,       \* os.Getenv("API_KEY")
    proc,         \* the process: "init", "starting", "serving", "panicked", "failed"
    mode,         \* how the provider's create treats an existing type+name
    records,      \* the zone's records at the provider, in listing order
    nextID,       \* the next record ID the provider assigns
    pc,           \* per invocation: position
    kind,         \* per invocation: "Present" or "CleanUp"
    ch,           \* per invocation: the challenge request
    search,       \* per invocation: GetZone's search term
    zoneData,     \* per invocation: the decoded Items of the zone lookup
    hostname,     \* per invocation: the relative record name
    recordID,     \* per invocation: CleanUp's recordID
    payload,      \* per invocation: Present's marshalled record
    result,       \* per invocation: what the invocation returned
    calls,        \* per invocation: the provider calls it issued
    resps,        \* per invocation: the provider responses it received
    after,        \* per invocation: the invocations finished when it began
    faults,       \* failed provider calls and malformed requests so far
    initResult,   \* what Initialize returned
    lastWriter,   \* the invocation whose create or delete the provider applied last
    normIn,       \* hostname normalisation on its own: the (fqdn, zone) pair
    normPresent,  \* ... the hostname as Present computes it
    normCleanUp,  \* ... the hostname as CleanUp computes it
    normSearch    \* ... the search term GetZone derives from the zone

solverVars == <<build, GroupName, ApiKey, proc, mode, records, nextID, pc, kind,
                ch, search, zoneData, hostname, recordID, payload, result,
                calls, resps, after, faults, initResult, lastWriter>>
normVars == <<normIn, normPresent, normCleanUp, normSearch>>
vars == <<build, GroupName, ApiKey, proc, mode, records, nextID, pc, kind,
          ch, search, zoneData, hostname, recordID, payload, result,
          calls, resps, after, faults, initResult, lastWriter, normIn, normPresent,
          normCleanUp, normSearch>>

(***************************************************************************)
(* Bounds                                                                  *)
(***************************************************************************)
MaxInv == 2    \* invocations of Present/CleanUp in one behaviour
MaxFaults == 1 \* failed provider calls and malformed requests in one behaviour
MaxLen == 3    \* length of the strings the normaliser is tried on

Invs == 1..MaxInv

(***************************************************************************)
(* Program constants                                                       *)
(***************************************************************************)
recordTTL == 10
recordType == 3

Builds == {"main.go", "part_000"}

(***************************************************************************)
(* Strings                                                                 *)
(***************************************************************************)
Dot == <<".">>

HasSuffix(s, suffix) ==
    /\ Len(s) >= Len(suffix)
    /\ SubSeq(s, Len(s) - Len(suffix) + 1, Len(s)) = suffix

TrimSuffix(s, suffix) ==
    IF HasSuffix(s, suffix) THEN SubSeq(s, 1, Len(s) - Len(suffix)) ELSE s

\* Present: hostname := TrimSuffix(FQDN, Zone); hostname = TrimSuffix(hostname, ".")
PresentHostnameNoZoneTrim(fqdn, zone) == TrimSuffix(fqdn, Dot)

PresentHostname(fqdn, zone) ==
    LET h1 == TrimSuffix(fqdn, zone) IN TrimSuffix(h1, Dot)

\* CleanUp: hostname := TrimSuffix(TrimSuffix(FQDN, Zone), ".")
CleanUpHostnameKeepDot(fqdn, zone) == TrimSuffix(fqdn, zone)

CleanUpHostname(fqdn, zone) == TrimSuffix(TrimSuffix(fqdn, zone), Dot)

RECURSIVE GetZoneSearchTermNoDots(_)
GetZoneSearchTermNoDots(zone) ==
    IF zone # <<>> /\ zone[Len(zone)] = "."
    THEN GetZoneSearchTermNoDots(SubSeq(zone, 1, Len(zone) - 1))
    ELSE zone

\* GetZone: one trailing "." is cut from the zone before it is searched for.
\* The caller has already established Len(zone) > 0.
GetZoneSearchTerm(zone) ==
    IF zone[Len(zone)] = "." THEN SubSeq(zone, 1, Len(zone) - 1) ELSE zone

(***************************************************************************)
(* Requests the host can pass                                              *)
(***************************************************************************)
NilRequest ==
    [nil |-> TRUE, ResolvedFQDN |-> <<>>, ResolvedZone |-> <<>>, Key |-> ""]

Challenge(fqdn, zone, key) ==
    [nil |-> FALSE, ResolvedFQDN |-> fqdn, ResolvedZone |-> zone, Key |-> key]

\* "a" stands for _acme-challenge, "e" for example.com
FQDN == <<"a", ".", "e", ".">>
Zone == <<"e", ".">>
ZoneNoDot == <<"e">>

Requests ==
    { NilRequest,
      Challenge(<<>>, <<>>, ""),
      Challenge(FQDN, Zone, "tok1"),
      Challenge(FQDN, Zone, "tok2") }

\* A request the code cannot serve: nil, or without a zone
Malformed(c) == c.nil \/ c.ResolvedZone = <<>>

(***************************************************************************)
(* Results of an invocation                                                *)
(***************************************************************************)
\* out: "none" (still running, or a nil error), "ok" (returned nil), "error"
\* (returned an error value), "panic" (aborted), "hang" (never returns).
\* wrap is the context an outer fmt.Errorf puts before msg.
NoResult ==
    [out |-> "none", wrap |-> "", msg |-> "", cause |-> "", status |-> 0, body |-> ""]
Success ==
    [out |-> "ok", wrap |-> "", msg |-> "", cause |-> "", status |-> 0, body |-> ""]
Panic(m) ==
    [out |-> "panic", wrap |-> "", msg |-> m, cause |-> "", status |-> 0, body |-> ""]
Hang ==
    [out |-> "hang", wrap |-> "", msg |-> "", cause |-> "", status |-> 0, body |-> ""]
Error(m, c) ==
    [out |-> "error", wrap |-> "", msg |-> m, cause |-> c, status |-> 0, body |-> ""]
StatusError(st, b) ==
    [out |-> "error", wrap |-> "", msg |-> "API request failed with status",
     cause |-> "", status |-> st, body |-> b]
Wrap(w, e) == [e EXCEPT !.wrap = w]

(***************************************************************************)
(* The provider                                                            *)
(***************************************************************************)
TheZone == [ID |-> 7, Domain |-> ZoneNoDot]

Rec(id, t, name, value) ==
    [ID |-> id, Type |-> t, Ttl |-> recordTTL, Value |-> value, Name |-> name,
     Disabled |-> FALSE]

\* A zone as the account may hold it before any challenge: empty, or with
\* records of other types, other names and other challenges.  A provider
\* that appends may hold the same TXT record twice.  first is the ID of the
\* zone's first record; a zone that never held a record may number from 0.
InitialRecords(m, first) ==
    IF first = 0 THEN { <<>> }
    ELSE IF m = "append"
    THEN { <<>>,
           << Rec(first, 3, <<"a">>, "tok1"), Rec(first + 1, 3, <<"a">>, "tok1"),
              Rec(first + 2, 1, <<"a">>, "tok1"), Rec(first + 3, 3, <<"b">>, "tok1"),
              Rec(first + 4, 3, <<"a">>, "tok2") >> }
    ELSE { <<>>,
           << Rec(first, 3, <<"a">>, "tok1"), Rec(first + 1, 1, <<"a">>, "tok1"),
              Rec(first + 2, 3, <<"b">>, "tok1") >> }

\* Responses: the call fails in transport, exceeds the time limit, or is
\* answered with a status and a body.
Resp(k, st, b) == [kind |-> k, status |-> st, body |-> b]

ErrBody == "{\"Message\":\"internal\"}"

LookupResps ==
    { Resp("transport", 0, ""), Resp("timeout", 0, ""),
      Resp("http", 200, "zone"), Resp("http", 200, "empty"),
      Resp("http", 500, ErrBody), Resp("http", 200, "malformed") }

CreateResps ==
    { Resp("transport", 0, ""), Resp("timeout", 0, ""),
      Resp("http", 201, ""), Resp("http", 500, ErrBody) }

DeleteResps ==
    { Resp("transport", 0, ""), Resp("timeout", 0, ""),
      Resp("http", 204, ""), Resp("http", 500, ErrBody) }

\* The answers of a provider that works
LookupOK == Resp("http", 200, "zone")
CreateOK == Resp("http", 201, "")
DeleteOK == Resp("http", 204, "")

\* The provider acts on a call it answers with a status below 400.
Applied(resp) == resp.kind = "http" /\ resp.status < 400

Field(obj, f, default) == IF f \in DOMAIN obj THEN obj[f] ELSE default

RECURSIVE FirstIndex(_, _, _, _)
FirstIndex(recs, i, t, name) ==
    IF i > Len(recs) THEN 0
    ELSE IF recs[i].Type = t /\ recs[i].Name = name THEN i
    ELSE FirstIndex(recs, i + 1, t, name)

\* PUT /dnszone/{id}/records
ProviderCreate(recs, m, id, obj) ==
    LET new == [ID |-> id,
                Type |-> Field(obj, "Type", 0),
                Ttl |-> Field(obj, "Ttl", 0),
                Value |-> Field(obj, "Value", ""),
                Name |-> Field(obj, "Name", <<>>),
                Disabled |-> Field(obj, "Disabled", FALSE)]
        i == FirstIndex(recs, 1, new.Type, new.Name)
    IN  IF m = "upsert" /\ i > 0
        THEN [recs EXCEPT ![i] = [new EXCEPT !.ID = recs[i].ID]]
        ELSE Append(recs, new)

\* DELETE /dnszone/{id}/records/{recordId}
ProviderDelete(recs, id) == SelectSeq(recs, LAMBDA r : r.ID # id)

\* GET /dnszone?page=1&perPage=1&search=...  decoded into Items
DecodeItems(body, recs) ==
    IF body = "zone"
    THEN << [ID |-> TheZone.ID, Domain |-> TheZone.Domain, Records |-> recs] >>
    ELSE <<>>

(***************************************************************************)
(* Provider calls as the invocation's log keeps them                       *)
(***************************************************************************)
NoBody == [f \in {} |-> 0]
GetCall(term) ==
    [op |-> "GET", search |-> term, zoneID |-> 0, recordID |-> 0, body |-> NoBody]
PutCall(zid, obj) ==
    [op |-> "PUT", search |-> <<>>, zoneID |-> zid, recordID |-> 0, body |-> obj]
DeleteCall(zid, rid) ==
    [op |-> "DELETE", search |-> <<>>, zoneID |-> zid, recordID |-> rid, body |-> NoBody]

(***************************************************************************)
(* The solver's code between network calls                                 *)
(***************************************************************************)
\* loadConfig
loadConfig(key) ==
    IF key = "" THEN Panic("API_KEY must be specified") ELSE NoResult

\* GetZone, before the request: zone[len(zone)-1] indexes an empty string at -1
GetZoneEntry(zone) ==
    IF Len(zone) = 0 THEN Panic("index out of range") ELSE NoResult

\* Present, up to the zone lookup
PresentEntry(b, key, c) ==
    IF b = "part_000" /\ c.nil THEN Error("challenge request cannot be nil", "")
    ELSE IF loadConfig(key).out # "none" THEN loadConfig(key)
    ELSE IF c.nil THEN Panic("nil pointer dereference")
    ELSE GetZoneEntry(c.ResolvedZone)

\* CleanUp, up to the zone lookup
CleanUpEntry(b, key, c) ==
    IF loadConfig(key).out # "none" THEN loadConfig(key)
    ELSE IF c.nil THEN Panic("nil pointer dereference")
    ELSE GetZoneEntry(c.ResolvedZone)

\* GetZone, from the response on: the error it returns and the Items it decoded.
\* main.go drops every error and returns whatever was decoded; http.DefaultClient
\* has no timeout.  part_000 returns each error and refuses an empty Items.
GetZoneWhateverTheResponse(b, resp, recs) ==
    [err |-> NoResult, items |-> DecodeItems("zone", recs)]

GetZone(b, resp, recs) ==
    IF b = "main.go"
    THEN CASE resp.kind = "transport" ->
                [err |-> Panic("nil pointer dereference"), items |-> <<>>]
           [] resp.kind = "timeout" -> [err |-> Hang, items |-> <<>>]
           [] OTHER -> [err |-> NoResult, items |-> DecodeItems(resp.body, recs)]
    ELSE CASE resp.kind = "transport" ->
                [err |-> Error("failed to execute request", "transport"), items |-> <<>>]
           [] resp.kind = "timeout" ->
                [err |-> Error("failed to execute request", "timeout"), items |-> <<>>]
           [] resp.body = "malformed" ->
                [err |-> Error("failed to unmarshal response", "decode"), items |-> <<>>]
           [] DecodeItems(resp.body, recs) = <<>> ->
                [err |-> Error("no DNS zone found", ""), items |-> <<>>]
           [] OTHER -> [err |-> NoResult, items |-> DecodeItems(resp.body, recs)]

\* What the caller of GetZone does with it: wrap the error, or index Items[0]
AfterGetZone(z) ==
    IF z.err.out = "error" THEN Wrap("failed to get zone ID", z.err)
    ELSE IF z.err.out # "none" THEN z.err
    ELSE IF Len(z.items) = 0 THEN Panic("index out of range")
    ELSE NoResult

\* json.Marshal(record): main.go marshals a struct of five plain fields,
\* part_000 marshals Record, whose fields are all omitempty.
MarshalNoValue(b, value, name) ==
    [f \in {"Type", "Ttl", "Name"} |-> CASE f = "Type" -> recordType
                                         [] f = "Ttl" -> recordTTL
                                         [] f = "Name" -> name]

Marshal(b, value, name) ==
    LET all == {"Type", "Ttl", "Value", "Name", "Disabled"}
        dom == IF b = "main.go" THEN all
               ELSE {"Type", "Ttl"} \cup (IF value # "" THEN {"Value"} ELSE {})
                                    \cup (IF name # <<>> THEN {"Name"} ELSE {})
    IN  [f \in dom |-> CASE f = "Type" -> recordType
                         [] f = "Ttl" -> recordTTL
                         [] f = "Value" -> value
                         [] f = "Name" -> name
                         [] f = "Disabled" -> FALSE]

StatusIsErrorClientOnly(status) == status >= 400 /\ status < 500

StatusIsError(status) == status >= 400

\* Present, from the response to the create call on
PresentResponse(b, resp) ==
    CASE resp.kind = "transport" -> Error("failed to send request", "transport")
      [] resp.kind = "timeout" ->
            IF b = "main.go" THEN Hang ELSE Error("failed to send request", "timeout")
      [] OTHER -> IF StatusIsError(resp.status)
                  THEN StatusError(resp.status, resp.body)
                  ELSE Success

RecordMatchesAnyValue(record, host, key) ==
    record.Type = 3 /\ record.Name = host

RecordMatches(record, host, key) ==
    record.Type = 3 /\ record.Name = host /\ record.Value = key

RECURSIVE ScanNoBreak(_, _, _, _, _)
ScanNoBreak(recs, i, host, key, found) ==
    IF i > Len(recs) THEN found
    ELSE ScanNoBreak(recs, i + 1, host, key,
                     IF RecordMatches(recs[i], host, key) THEN recs[i].ID ELSE found)

RECURSIVE Scan(_, _, _, _)
Scan(recs, i, host, key) ==
    IF i > Len(recs) THEN 0
    ELSE IF RecordMatches(recs[i], host, key) THEN recs[i].ID
    ELSE Scan(recs, i + 1, host, key)

FindRecordIDLast(recs, host, key) == ScanNoBreak(recs, 1, host, key, 0)

\* CleanUp: recordID := 0; for ... { if match { recordID = record.ID; break } }
FindRecordID(recs, host, key) == Scan(recs, 1, host, key)

NothingToDeleteNever(id) == FALSE

\* CleanUp: if recordID == 0 { return nil }
NothingToDelete(id) == id = 0

\* CleanUp, from the response to the delete call on: only Do's error is looked at
CleanUpResponse(b, resp) ==
    CASE resp.kind = "transport" -> Error("", "transport")
      [] resp.kind = "timeout" -> IF b = "main.go" THEN Hang ELSE Error("", "timeout")
      [] OTHER -> Success

\* What the host may hand to Initialize
KubeClientConfigs == {"nil", "in-cluster"}
StopChannels == {"nil", "open", "closed"}

InitializeNeedsConfig(kubeClientConfig, stopCh) ==
    IF kubeClientConfig = "nil" THEN Error("kubeClientConfig is nil", "") ELSE Success

\* Initialize: return nil
InitializeResult(kubeClientConfig, stopCh) == Success

(***************************************************************************)
(* Initial states                                                          *)
(***************************************************************************)
InitInvocations ==
    /\ pc = [p \in Invs |-> "idle"]
    /\ kind = [p \in Invs |-> ""]
    /\ ch = [p \in Invs |-> NilRequest]
    /\ search = [p \in Invs |-> <<>>]
    /\ zoneData = [p \in Invs |-> <<>>]
    /\ hostname = [p \in Invs |-> <<>>]
    /\ recordID = [p \in Invs |-> 0]
    /\ payload = [p \in Invs |-> NoBody]
    /\ result = [p \in Invs |-> NoResult]
    /\ calls = [p \in Invs |-> <<>>]
    /\ resps = [p \in Invs |-> <<>>]
    /\ after = [p \in Invs |-> {}]
    /\ faults = 0
    /\ lastWriter = 0

NormUnset == [set |-> FALSE, val |-> <<>>]

Init ==
    /\ build \in Builds
    /\ GroupName \in {"", "acme.example.com"}
    /\ ApiKey \in {"", "key"}
    /\ proc = "init"
    /\ initResult = NoResult
    /\ mode \in {"append", "upsert"}
    /\ \E first \in {0, 1} :
          /\ records \in InitialRecords(mode, first)
          /\ nextID = first + Len(records)
    /\ InitInvocations
    /\ normIn = [fqdn |-> <<>>, zone |-> <<>>]
    /\ normPresent = NormUnset
    /\ normCleanUp = NormUnset
    /\ normSearch = NormUnset

(***************************************************************************)
(* Actions                                                                 *)
(***************************************************************************)
Finish(p, r) ==
    /\ pc' = [pc EXCEPT ![p] = IF r.out = "hang" THEN "hung" ELSE "done"]
    /\ result' = [result EXCEPT ![p] = r]

\* A failure may happen while the behaviour has had fewer than MaxFaults
Fault(isFault) ==
    IF isFault
    THEN faults < MaxFaults /\ faults' = faults + 1
    ELSE UNCHANGED faults

\* main
Main ==
    /\ proc = "init"
    /\ proc' = IF GroupName = "" \/ ApiKey = "" THEN "panicked" ELSE "starting"
    /\ UNCHANGED <<build, GroupName, ApiKey, mode, records, nextID, pc, kind, ch,
                   search, zoneData, hostname, recordID, payload, result, calls,
                   resps, after, faults, lastWriter, normIn, normPresent,
                   normCleanUp, normSearch, initResult>>

\* Initialize, called by the webhook server before it serves challenges
Initialize(kubeClientConfig, stopCh) ==
    /\ proc = "starting"
    /\ initResult' = InitializeResult(kubeClientConfig, stopCh)
    /\ proc' = IF initResult'.out = "ok" THEN "serving" ELSE "failed"
    /\ UNCHANGED <<build, GroupName, ApiKey, mode, records, nextID, pc, kind, ch,
                   search, zoneData, hostname, recordID, payload, result, calls,
                   resps, after, faults, lastWriter, normIn, normPresent,
                   normCleanUp, normSearch>>

\* The host calls p with request c
Begin(p, k, c) ==
    /\ proc = "serving"
    /\ pc[p] = "idle"
    /\ \A q \in Invs : q < p => pc[q] # "idle"
    /\ kind' = [kind EXCEPT ![p] = k]
    /\ ch' = [ch EXCEPT ![p] = c]
    /\ after' = [after EXCEPT ![p] = {q \in Invs : pc[q] = "done"}]

\* The invocation returns from its entry code without a provider call
Reject(p, r) ==
    /\ Finish(p, r)
    /\ UNCHANGED <<search, zoneData, hostname, recordID, payload, calls, resps>>

\* The zone lookup of p is issued with search term t and answered with resp
Lookup(p, t, resp) ==
    /\ search' = [search EXCEPT ![p] = t]
    /\ calls' = [calls EXCEPT ![p] = Append(@, GetCall(t))]
    /\ resps' = [resps EXCEPT ![p] = Append(@, resp)]

\* Present, from the call to the answer of its zone lookup: nil check,
\* loadConfig, GetZoneID -> GetZone, then hostname, record and payload
PresentLookup(p, c, resp) ==
    /\ Begin(p, "Present", c)
    /\ LET e == PresentEntry(build, ApiKey, c)
           z == GetZone(build, resp, records)
           r == AfterGetZone(z)
           h == PresentHostname(c.ResolvedFQDN, c.ResolvedZone)
       IN  IF e.out # "none"
           THEN /\ Fault(Malformed(c))
                /\ Reject(p, e)
           ELSE /\ Fault(resp # LookupOK)
                /\ Lookup(p, GetZoneSearchTerm(c.ResolvedZone), resp)
                /\ IF r.out = "none"
                   THEN /\ zoneData' = [zoneData EXCEPT ![p] = z.items]
                        /\ hostname' = [hostname EXCEPT ![p] = h]
                        /\ payload' = [payload EXCEPT ![p] = Marshal(build, c.Key, h)]
                        /\ pc' = [pc EXCEPT ![p] = "create"]
                        /\ UNCHANGED <<result, recordID>>
                   ELSE /\ Finish(p, r)
                        /\ UNCHANGED <<zoneData, hostname, payload, recordID>>
    /\ UNCHANGED <<build, GroupName, ApiKey, proc, mode, records, nextID, lastWriter,
                   normIn,
                   normPresent, normCleanUp, normSearch, initResult>>

\* Present: the create call is issued and answered
PresentCreate(p, resp) ==
    /\ pc[p] = "create"
    /\ Fault(resp # CreateOK)
    /\ calls' = [calls EXCEPT ![p] = Append(@, PutCall(zoneData[p][1].ID, payload[p]))]
    /\ resps' = [resps EXCEPT ![p] = Append(@, resp)]
    /\ IF Applied(resp)
       THEN /\ records' = ProviderCreate(records, mode, nextID, payload[p])
            /\ nextID' = nextID + 1
            /\ lastWriter' = p
       ELSE UNCHANGED <<records, nextID, lastWriter>>
    /\ Finish(p, PresentResponse(build, resp))
    /\ UNCHANGED <<build, GroupName, ApiKey, proc, mode, kind, ch, search, zoneData,
                   hostname, recordID, payload, after, normIn, normPresent,
                   normCleanUp, normSearch, initResult>>

\* CleanUp, from the call to the answer of its zone lookup: loadConfig,
\* GetZone, then hostname, the scan and the recordID test
CleanUpLookup(p, c, resp) ==
    /\ Begin(p, "CleanUp", c)
    /\ LET e == CleanUpEntry(build, ApiKey, c)
           z == GetZone(build, resp, records)
           r == AfterGetZone(z)
           h == CleanUpHostname(c.ResolvedFQDN, c.ResolvedZone)
           id == FindRecordID(z.items[1].Records, h, c.Key)
       IN  IF e.out # "none"
           THEN /\ Fault(Malformed(c))
                /\ Reject(p, e)
           ELSE /\ Fault(resp # LookupOK)
                /\ Lookup(p, GetZoneSearchTerm(c.ResolvedZone), resp)
                /\ IF r.out = "none"
                   THEN /\ zoneData' = [zoneData EXCEPT ![p] = z.items]
                        /\ hostname' = [hostname EXCEPT ![p] = h]
                        /\ recordID' = [recordID EXCEPT ![p] = id]
                        /\ IF NothingToDelete(id)
                           THEN Finish(p, Success)
                           ELSE /\ pc' = [pc EXCEPT ![p] = "delete"]
                                /\ UNCHANGED result
                        /\ UNCHANGED payload
                   ELSE /\ Finish(p, r)
                        /\ UNCHANGED <<zoneData, hostname, recordID, payload>>
    /\ UNCHANGED <<build, GroupName, ApiKey, proc, mode, records, nextID, lastWriter,
                   normIn,
                   normPresent, normCleanUp, normSearch, initResult>>

\* CleanUp: the delete call is issued and answered
CleanUpDelete(p, resp) ==
    /\ pc[p] = "delete"
    /\ Fault(resp # DeleteOK)
    /\ calls' = [calls EXCEPT ![p] =
                    Append(@, DeleteCall(zoneData[p][1].ID, recordID[p]))]
    /\ resps' = [resps EXCEPT ![p] = Append(@, resp)]
    /\ records' = IF Applied(resp) THEN ProviderDelete(records, recordID[p])
                  ELSE records
    /\ lastWriter' = IF Applied(resp) THEN p ELSE lastWriter
    /\ Finish(p, CleanUpResponse(build, resp))
    /\ UNCHANGED <<build, GroupName, ApiKey, proc, mode, nextID, kind, ch, search,
                   zoneData, hostname, recordID, payload, after, normIn,
                   normPresent, normCleanUp, normSearch, initResult>>

Next ==
    \/ Main
    \/ \E k \in KubeClientConfigs, stop \in StopChannels : Initialize(k, stop)
    \/ \E p \in Invs, c \in Requests, resp \in LookupResps : PresentLookup(p, c, resp)
    \/ \E p \in Invs, resp \in CreateResps : PresentCreate(p, resp)
    \/ \E p \in Invs, c \in Requests, resp \in LookupResps : CleanUpLookup(p, c, resp)
    \/ \E p \in Invs, resp \in DeleteResps : CleanUpDelete(p, resp)

Spec == Init /\ [][Next]_vars

(***************************************************************************)
(* The hostname normaliser on its own, over all short strings              *)
(***************************************************************************)
Alphabet == {"a", "e", "."}
Strings == UNION {[1..n -> Alphabet] : n \in 0..MaxLen}

InitNorm ==
    /\ build = "part_000"
    /\ GroupName = "acme.example.com"
    /\ ApiKey = "key"
    /\ proc = "serving"
    /\ initResult = Success
    /\ mode = "append"
    /\ records = <<>>
    /\ nextID = 1
    /\ InitInvocations
    /\ normIn \in [fqdn : Strings, zone : Strings]
    /\ normPresent = NormUnset
    /\ normCleanUp = NormUnset
    /\ normSearch = NormUnset

\* Present computes the hostname of the request
NormPresent ==
    /\ ~normPresent.set
    /\ normPresent' = [set |-> TRUE, val |-> PresentHostname(normIn.fqdn, normIn.zone)]
    /\ UNCHANGED <<solverVars, normIn, normCleanUp, normSearch>>

\* CleanUp computes the hostname of the request
NormCleanUp ==
    /\ ~normCleanUp.set
    /\ normCleanUp' = [set |-> TRUE, val |-> CleanUpHostname(normIn.fqdn, normIn.zone)]
    /\ UNCHANGED <<solverVars, normIn, normPresent, normSearch>>

\* GetZone derives the search term of the zone; an empty zone never gets here
NormGetZone ==
    /\ ~normSearch.set
    /\ GetZoneEntry(normIn.zone).out = "none"
    /\ normSearch' = [set |-> TRUE, val |-> GetZoneSearchTerm(normIn.zone)]
    /\ UNCHANGED <<solverVars, normIn, normPresent, normCleanUp>>

NextNorm == NormPresent \/ NormCleanUp \/ NormGetZone

SpecNorm == InitNorm /\ [][NextNorm]_vars

(***************************************************************************)
(* Vocabulary of the properties                                            *)
(***************************************************************************)
Ops(p) == {calls[p][i].op : i \in DOMAIN calls[p]}
Deletes(p) == {i \in DOMAIN calls[p] : calls[p][i].op = "DELETE"}
Fetched(p) == zoneData[p][1].Records

\* The record name of a request as the specification words it: the FQDN
\* without the zone suffix and without one dot left at the end.
RelativeName(c) ==
    LET rest == SubSeq(c.ResolvedFQDN, 1, Len(c.ResolvedFQDN) - Len(c.ResolvedZone))
    IN  IF rest # <<>> /\ rest[Len(rest)] = "." THEN SubSeq(rest, 1, Len(rest) - 1)
        ELSE rest

\* r is the TXT record of request c
IsRecordOf(r, c) == r.Type = 3 /\ r.Name = RelativeName(c) /\ r.Value = c.Key

\* The positions of the fetched list of p that hold the record of its request
MatchesIn(p) == {j \in DOMAIN Fetched(p) : IsRecordOf(Fetched(p)[j], ch[p])}

\* The invocation that takes the step, if any
StepOf(p) == pc'[p] # pc[p]

(***************************************************************************)
(* C1.  Every delete call a CleanUp issues names the ID of a record of the *)
(* list it fetched that has Type 3, the request's relative hostname as     *)
(* Name and the request's Key as Value; a record of the same name and      *)
(* another value is never the target.                                      *)
(***************************************************************************)
C1_DeleteTargetsExactMatch ==
    \A p \in Invs : \A i \in Deletes(p) :
        /\ \E j \in MatchesIn(p) : Fetched(p)[j].ID = calls[p][i].recordID
        /\ \A j \in DOMAIN Fetched(p) :
              Fetched(p)[j].ID = calls[p][i].recordID
                 => Fetched(p)[j].Value = ch[p].Key

\* a delete was issued although the list held a TXT record of that name
\* with another value
C1_Witness ==
    \E p \in Invs :
        /\ Deletes(p) # {}
        /\ \E j \in DOMAIN Fetched(p) :
              /\ Fetched(p)[j].Type = 3
              /\ Fetched(p)[j].Name = RelativeName(ch[p])
              /\ Fetched(p)[j].Value # ch[p].Key

(***************************************************************************)
(* C2.  A CleanUp issues at most one delete call; the call names the first *)
(* record, in the order the provider listed them, that matches Type, Name  *)
(* and Value; and the steps of a CleanUp leave every other record of the   *)
(* zone as it was.                                                         *)
(***************************************************************************)
C2_Step(p) ==
    /\ Cardinality(Deletes(p)') <= 1
    /\ (StepOf(p) /\ kind'[p] = "CleanUp") =>
          IF pc[p] = "delete"
          THEN LET target == calls'[p][Len(calls'[p])].recordID
               IN  /\ MatchesIn(p) # {}
                   /\ \E j \in MatchesIn(p) :
                         /\ \A k \in MatchesIn(p) : j <= k
                         /\ Fetched(p)[j].ID = target
                   /\ \A i \in DOMAIN records :
                         records[i].ID # target =>
                            \E k \in DOMAIN records' : records'[k] = records[i]
                   /\ \A k \in DOMAIN records' :
                         \E i \in DOMAIN records : records[i] = records'[k]
          ELSE records' = records

C2_AtMostOneDeleteOfFirstMatch == [][\A p \in Invs : C2_Step(p)]_vars

\* Scenario C with a duplicate: the list held the request's record twice and a
\* same-named TXT record of another challenge; one delete was applied and the
\* other challenge's record is still in the zone
C2_Witness ==
    \E p \in Invs :
        /\ pc[p] = "done" /\ Deletes(p) # {}
        /\ resps[p][2] = DeleteOK
        /\ Cardinality(MatchesIn(p)) >= 2
        /\ \E i \in DOMAIN records :
              /\ records[i].Type = 3 /\ records[i].Name = RelativeName(ch[p])
              /\ records[i].Value # ch[p].Key

(***************************************************************************)
(* C3.  A CleanUp whose zone lookup delivered the zone without any record  *)
(* matching (TXT, relative hostname, Key) returns success and issues no    *)
(* mutating call; so does a second CleanUp after one that deleted.         *)
(***************************************************************************)
C3_CleanUpIdempotent ==
    \A p \in Invs :
        (/\ kind[p] = "CleanUp" /\ pc[p] # "idle"
         /\ zoneData[p] # <<>>
         /\ MatchesIn(p) = {})
        => /\ pc[p] = "done"
           /\ result[p] = Success
           /\ Ops(p) = {"GET"}

\* a second CleanUp with the same request, begun after the first had deleted
\* the record, found nothing and returned success
C3_Witness ==
    \E p, q \in Invs :
        /\ p \in after[q]
        /\ kind[p] = "CleanUp" /\ kind[q] = "CleanUp" /\ ch[p] = ch[q]
        /\ Deletes(p) # {} /\ resps[p][2] = DeleteOK /\ result[p] = Success
        /\ zoneData[q] # <<>> /\ MatchesIn(q) = {}
        /\ result[q] = Success /\ Ops(q) = {"GET"}

(***************************************************************************)
(* C4.  With a provider that upserts by type+name and answers every call   *)
(* with success, a Present and then a second Present with the same request *)
(* leave the second without error and the zone with exactly one TXT record *)
(* of the request's relative hostname and Key.                             *)
(***************************************************************************)
PresentTwice(p, q) ==
    /\ p # q /\ p \in after[q] /\ pc[q] = "done"
    /\ kind[p] = "Present" /\ kind[q] = "Present"
    /\ ch[p] = ch[q] /\ ~Malformed(ch[p])
    /\ resps[p] = <<LookupOK, CreateOK>> /\ resps[q] = <<LookupOK, CreateOK>>
    /\ \A o \in Invs \ {p, q} : pc[o] = "idle"

C4_PresentIdempotent ==
    \A p, q \in Invs :
        (mode = "upsert" /\ PresentTwice(p, q))
        => /\ result[q] = Success
           /\ Cardinality({i \in DOMAIN records : IsRecordOf(records[i], ch[q])}) = 1

C4_Witness == \E p, q \in Invs : mode = "upsert" /\ PresentTwice(p, q)

(***************************************************************************)
(* C5.  An invocation whose zone lookup was answered with zero items       *)
(* returns a zone-not-found error and has issued no create and no delete.  *)
(***************************************************************************)
ZeroItems == Resp("http", 200, "empty")

C5_ZeroItemsIsZoneNotFound ==
    \A p \in Invs :
        (Len(resps[p]) >= 1 /\ resps[p][1] = ZeroItems)
        => /\ result[p].out = "error"
           /\ result[p].msg = "no DNS zone found"
           /\ Ops(p) = {"GET"}

(***************************************************************************)
(* C6.  No invocation of Present or CleanUp ends by aborting: whatever the *)
(* request and whatever the provider answered, an invocation that has      *)
(* ended has returned success or an error value.                           *)
(***************************************************************************)
C6_NeverPanics == \A p \in Invs : result[p].out # "panic"

(***************************************************************************)
(* C7.  An invocation returns an error whenever one of its provider calls  *)
(* failed, in transport or by a status of 400 or more; and a CleanUp that  *)
(* returned success without its delete having been applied found no        *)
(* matching record.                                                        *)
(***************************************************************************)
Failed(resp) == resp.kind # "http" \/ resp.status >= 400

C7_NothingSwallowed ==
    \A p \in Invs :
        pc[p] = "done" =>
           /\ (\E i \in DOMAIN resps[p] : Failed(resps[p][i]))
                 => result[p].out = "error"
           /\ (/\ kind[p] = "CleanUp" /\ result[p] = Success
               /\ ~(Len(resps[p]) = 2 /\ Applied(resps[p][2])))
                 => MatchesIn(p) = {}

(***************************************************************************)
(* C8.  A Present whose create call was answered with a status of 400 or   *)
(* more returns an error that carries that status and the response body,   *)
(* and issues no call after it.                                            *)
(***************************************************************************)
CreateRefused(p) ==
    /\ kind[p] = "Present" /\ Len(resps[p]) = 2
    /\ resps[p][2].kind = "http" /\ resps[p][2].status >= 400

C8_CreateStatusError ==
    \A p \in Invs :
        CreateRefused(p)
        => /\ pc[p] = "done"
           /\ result[p].out = "error"
           /\ result[p].status = resps[p][2].status
           /\ result[p].body = resps[p][2].body
           /\ Len(calls[p]) = 2 /\ calls[p][2].op = "PUT"

\* Scenario D: the create call was answered 500 {"Message":"internal"}
C8_Witness ==
    \E p \in Invs :
        /\ CreateRefused(p)
        /\ resps[p][2].status = 500 /\ resps[p][2].body = ErrBody
        /\ result[p].status = 500

(***************************************************************************)
(* C9.  A Present called with a nil or an empty request returns an         *)
(* invalid-input error and has issued no provider call.                    *)
(***************************************************************************)
C9_PresentRejectsMalformed ==
    \A p \in Invs :
        (kind[p] = "Present" /\ pc[p] # "idle" /\ Malformed(ch[p]))
        => /\ result[p].out = "error"
           /\ result[p].msg = "challenge request cannot be nil"
           /\ calls[p] = <<>>

(***************************************************************************)
(* C10.  When the zone is a suffix of the FQDN, the hostname Present       *)
(* computes and the hostname CleanUp computes are both the FQDN without    *)
(* the zone suffix and without one trailing dot, if one is left; and the   *)
(* two are the same for every request.                                     *)
(***************************************************************************)
IsRelativeName(h, fqdn, zone) ==
    \E rest \in Strings :
        /\ rest \o zone = fqdn
        /\ \/ h \o Dot = rest
           \/ h = rest /\ (rest = <<>> \/ rest[Len(rest)] # ".")

C10_RelativeName ==
    /\ (normPresent.set /\ HasSuffix(normIn.fqdn, normIn.zone))
          => IsRelativeName(normPresent.val, normIn.fqdn, normIn.zone)
    /\ (normCleanUp.set /\ HasSuffix(normIn.fqdn, normIn.zone))
          => IsRelativeName(normCleanUp.val, normIn.fqdn, normIn.zone)
    /\ (normPresent.set /\ normCleanUp.set) => normPresent.val = normCleanUp.val

\* both have computed the hostname of a name below a zone, which took the
\* removal of the zone and of the dot before it
C10_Witness ==
    /\ normPresent.set /\ normCleanUp.set
    /\ normIn.zone # <<>>
    /\ normPresent.val # <<>>
    /\ normPresent.val \o Dot \o normIn.zone = normIn.fqdn

(***************************************************************************)
(* C11.  The body of every create call Present issues holds exactly the    *)
(* five fields Type = 3, Ttl = 10, Value = the request's Key, Name = the   *)
(* relative hostname and Disabled = false, and no ID field.                *)
(***************************************************************************)
C11_CreateBody ==
    \A p \in Invs : \A i \in DOMAIN calls[p] :
        calls[p][i].op = "PUT" =>
           /\ DOMAIN calls[p][i].body = {"Type", "Ttl", "Value", "Name", "Disabled"}
           /\ calls[p][i].body["Type"] = 3
           /\ calls[p][i].body["Ttl"] = 10
           /\ calls[p][i].body["Value"] = ch[p].Key
           /\ calls[p][i].body["Name"] = RelativeName(ch[p])
           /\ calls[p][i].body["Disabled"] = FALSE

(***************************************************************************)
(* C12.  The search term of the zone lookup is the zone name without its   *)
(* last character when that is a dot, exactly one dot being removed, and   *)
(* the zone name itself otherwise.                                         *)
(***************************************************************************)
C12_SearchTerm ==
    normSearch.set =>
        IF normIn.zone[Len(normIn.zone)] = "."
        THEN normSearch.val \o Dot = normIn.zone
        ELSE normSearch.val = normIn.zone

\* the term of a zone that ends in two dots still ends in one
C12_Witness ==
    /\ normSearch.set
    /\ Len(normIn.zone) >= 3
    /\ normIn.zone[Len(normIn.zone)] = "."
    /\ normSearch.val[Len(normSearch.val)] = "."

(***************************************************************************)
(* C13.  An invocation one of whose provider calls (zone lookup, create or *)
(* delete) exceeded the time limit has returned an error of the timeout    *)
(* kind; it does not hang.                                                 *)
(***************************************************************************)
C13_TimeoutIsAnError ==
    \A p \in Invs :
        (\E i \in DOMAIN resps[p] : resps[p][i].kind = "timeout")
        => /\ pc[p] = "done"
           /\ result[p].out = "error"
           /\ result[p].cause = "timeout"

(***************************************************************************)
(* C14.  Initialize returns no error whatever the host hands it, and the   *)
(* step issues no provider call and changes nothing of the zone, of the    *)
(* configuration or of any invocation.                                     *)
(***************************************************************************)
C14_InitializeStep ==
    proc = "starting" /\ proc' # proc =>
        /\ initResult' = Success
        /\ proc' = "serving"
        /\ UNCHANGED <<build, GroupName, ApiKey, mode, records, nextID, pc, kind,
                       ch, search, zoneData, hostname, recordID, payload, result,
                       calls, resps, after, faults, lastWriter>>

C14_InitializeSucceeds == [][C14_InitializeStep]_vars

\* Initialize has returned and the solver serves
C14_Witness == proc = "serving" /\ initResult = Success /\ records # <<>>

(***************************************************************************)
(* C15.  When the delete call of a CleanUp takes effect at the provider,   *)
(* the record it removes carries the Key of that CleanUp's own request at  *)
(* that moment: it never removes a record that by then carries the Key of  *)
(* another challenge, whatever steps of other invocations came between its *)
(* lookup and its delete.                                                  *)
(***************************************************************************)
C15_Step(p) ==
    (/\ StepOf(p) /\ pc[p] = "delete"
     /\ Applied(resps'[p][Len(resps'[p])])) =>
        \A i \in DOMAIN records :
            records[i].ID = recordID[p] => records[i].Value = ch[p].Key

C15_DeleteNeverRemovesOtherKey == [][\A p \in Invs : C15_Step(p)]_vars

(***************************************************************************)
(* C16.  Against a provider that upserts by type+name: once a Present has  *)
(* returned success, and for as long as no CleanUp for the same request    *)
(* has begun, exactly one TXT record with the request's relative hostname  *)
(* and Key exists in the zone, also when Presents for the same hostname    *)
(* and another key run concurrently or afterwards.                         *)
(***************************************************************************)
Presented(p) ==
    /\ mode = "upsert"
    /\ kind[p] = "Present" /\ pc[p] = "done" /\ result[p] = Success

RecordsOf(c) == {i \in DOMAIN records : IsRecordOf(records[i], c)}

CallsOf(p, op) == {i \in DOMAIN calls[p] : calls[p][i].op = op}

StepFailed(p, i) ==
    \/ Failed(resps[p][i])
    \/ calls[p][i].op = "GET" /\ resps[p][i].body # "zone"

C17_NoRetries ==
    \A p \in Invs :
        /\ Len(resps[p]) = Len(calls[p])
        /\ Cardinality(CallsOf(p, "GET")) <= 1
        /\ Cardinality(CallsOf(p, "PUT")) <= (IF kind[p] = "Present" THEN 1 ELSE 0)
        /\ Cardinality(CallsOf(p, "DELETE")) <= (IF kind[p] = "CleanUp" THEN 1 ELSE 0)
        /\ \A i \in DOMAIN resps[p] : StepFailed(p, i) => i = Len(calls[p])

\* An invocation has ended at its failed lookup with that one call, next to
\* an invocation that went through both of its calls
C17_Witness ==
    \E p, q \in Invs :
        /\ pc[p] \in {"done", "hung"} /\ pc[q] = "done"
        /\ Len(calls[p]) = 1 /\ StepFailed(p, 1) /\ result[p] # Success
        /\ Len(calls[q]) = 2 /\ kind[q] \in {"Present", "CleanUp"}

(***************************************************************************)
(* C18.  A CleanUp whose fetched record list holds a record with Type 3,   *)
(* the request's relative hostname as Name and the request's Key as Value  *)
(* issues a delete call for the ID of the first such record, whatever ID   *)
(* the provider gave it, 0 included.                                       *)
(***************************************************************************)
C18_DeleteIssuedForFirstMatch ==
    \A p \in Invs :
        (/\ kind[p] = "CleanUp" /\ pc[p] \in {"done", "hung"}
         /\ zoneData[p] # <<>> /\ MatchesIn(p) # {})
        => \E i \in Deletes(p) : \E j \in MatchesIn(p) :
              /\ \A k \in MatchesIn(p) : j <= k
              /\ calls[p][i].recordID = Fetched(p)[j].ID

(***************************************************************************)
(* C19.  Present and then CleanUp with the same request, both returning    *)
(* success and nothing else running: no TXT record with the request's      *)
(* relative hostname and Key is left in the zone, and every record the     *)
(* zone held before the Present under another name or type is still there  *)
(* unchanged.                                                              *)
(***************************************************************************)
RoundTrip(p, q) ==
    /\ p # q /\ p \in after[q] /\ after[p] = {}
    /\ kind[p] = "Present" /\ kind[q] = "CleanUp" /\ ch[q] = ch[p]
    /\ pc[p] = "done" /\ pc[q] = "done"
    /\ result[p] = Success /\ result[q] = Success
    /\ \A o \in Invs \ {p, q} : pc[o] = "idle"

C19_RoundTrip ==
    \A p, q \in Invs :
        RoundTrip(p, q) =>
           /\ RecordsOf(ch[p]) = {}
           /\ \A j \in DOMAIN Fetched(p) :
                 (Fetched(p)[j].Type # 3 \/ Fetched(p)[j].Name # RelativeName(ch[p]))
                 => \E i \in DOMAIN records : records[i] = Fetched(p)[j]

====
